---- MODULE Spec2Model ----
(***************************************************************************)
(* bin2iso: conversion of a raw BIN image (2352 or 2336 bytes per sector)  *)
(* to an ISO image (2048 bytes per sector), src/bin2iso.c.                 *)
(*                                                                         *)
(* The model starts after both streams are open (bin2iso.c:101-105) and    *)
(* follows main() statement by statement.  The source file is described    *)
(* by its length and the bytes the program looks at; the sector buffer and *)
(* the destination are held byte by byte.  Every stdio call may fail       *)
(* (an I/O error chosen by the environment); a read also fails when the    *)
(* file has fewer bytes left than asked for.                               *)
(***************************************************************************)
EXTENDS Integers, Sequences, FiniteSets

\* ------------------------------------------------------------ bounds
\* The largest number of whole sectors of a generated source image.
MaxSectors == 2

\* ------------------------------------------------- program constants
MODE_OFFSET == 15
SYNC_HEADER == <<0, 255, 255, 255, 255, 255, 255, 255, 255, 255, 255, 0>>
BUF_SZ      == 2352
PROBE_SZ    == 16
PAYLOAD_SZ  == 2048
\* An automatic variable that has not been assigned (buf, mode, hdr_sz, ...).
Uninit      == -1

\* --------------------------------------------------------- variables
VARIABLES
    charSigned,  \* the build: whether plain char is signed
    srcKind,     \* source file: what its first 12 bytes are
    srcLen,      \* source file: its length in bytes
    srcModes,    \* source file: the bytes at offsets 15 + 2352*k
    srcPos,      \* src: the stream position
    buf,         \* char buf[2352]
    mode, hdr_sz, sector_sz, img_sz, tail_sz, nr_sectors,
    i,           \* the loop variable
    dst,         \* the bytes the destination stream has accepted
    trace,       \* the stdio calls and the stderr lines, in order
    lastRead,    \* the last successful fread: where from and how many bytes
    ioFault,     \* whether the environment has failed a stdio call
    pc

vars == <<charSigned, srcKind, srcLen, srcModes, srcPos, buf, mode, hdr_sz,
          sector_sz, img_sz, tail_sz, nr_sectors, i, dst, trace, lastRead,
          ioFault, pc>>

\* ------------------------------------------------------ the source file
Kinds == {"sync", "nearsync", "nosync"}
Tails == {0, 15, 16, 2335}
Lens  == {n * s + t : n \in 0..MaxSectors, s \in {2336, 2352}, t \in Tails}
ProbeModes == {1, 2, 7, 200}
LaterModes == {1, 2, 200}

\* The bytes the program never interprets: distinct at offsets a header or a
\* sector apart, so that a shifted copy differs from the right one.
Pattern(p) == p % 251

\* How many offsets 15 + 2352*k lie inside a file of len bytes.
NModeSlots(len) == IF len < PROBE_SZ THEN 0 ELSE (len - PROBE_SZ) \div 2352 + 1

\* Byte p of the source file.
SrcByte(p) ==
    IF p < 12 /\ srcKind = "sync" THEN SYNC_HEADER[p + 1]
    ELSE IF p < 11 /\ srcKind = "nearsync" THEN SYNC_HEADER[p + 1]
    ELSE IF srcKind = "sync" /\ p % 2352 = MODE_OFFSET
         THEN srcModes[p \div 2352 + 1]
    ELSE Pattern(p)

\* ------------------------------------------------------------ C types
\* A plain char holding byte b, promoted to int.
CharToInt(b) == IF charSigned /\ b >= 128 THEN b - 256 ELSE b

\* An int handed to printf's %u: the value modulo 2^32, as two 16-bit halves.
FmtU(v) == IF v >= 0 THEN [hi |-> v \div 65536, lo |-> v % 65536]
           ELSE [hi |-> 65535, lo |-> 65536 + v]

\* The unsigned value n (0..65535) as printf prints it.
Printed(n) == [hi |-> 0, lo |-> n]

\* ------------------------------------------------------- stdio wrappers
\* Faulty variant: xfread tests ferror() only: a short read at end of file passes.
FreadOkNoShort(sz, fault) == ~fault

\* fread(buf, sz, 1, stream) returns 1.
FreadOk(sz, fault) == ~fault /\ srcPos + sz <= srcLen

\* The buffer after fread(b, sz, 1, src) at srcPos: the bytes the file has are
\* copied, the rest of the buffer keeps what it held.
Fread(b, sz) ==
    [j \in 0..(BUF_SZ - 1) |->
        IF j < sz /\ srcPos + j < srcLen THEN SrcByte(srcPos + j) ELSE b[j]]

\* Faulty variant: the payload taken one byte too far into the sector.
PayloadOffByOne(b, hdr) == [j \in 1..PAYLOAD_SZ |-> b[hdr + j]]

\* xfwrite(&buf[hdr], 2048, dst): the bytes handed to the stream.
Payload(b, hdr) == [j \in 1..PAYLOAD_SZ |-> b[hdr + j - 1]]

\* What a failed fwrite may have put into the stream before failing.
ShortWrites == {0, 1, PAYLOAD_SZ - 1}

Ev(op, a, b) == [op |-> op, a |-> a, b |-> b]

Die(what, a) == Ev(what, a, 0)

\* ------------------------------------------------------------- layout
HasSync(b) == \A j \in 0..11 : b[j] = SYNC_HEADER[j + 1]

\* Faulty variant: no mode detection: every image with a sync header is Mode 1.
LayoutNoModeDetection(b) ==
    IF ~HasSync(b)
    THEN [ok |-> TRUE, mode |-> 0, hdr_sz |-> 8, sector_sz |-> 2336]
    ELSE [ok |-> TRUE, mode |-> b[MODE_OFFSET], hdr_sz |-> 16, sector_sz |-> 2352]

\* Faulty variant: the default label sits on case 1: an unknown mode is read as Mode 1.
LayoutDefaultIsMode1(b) ==
    IF ~HasSync(b)
    THEN [ok |-> TRUE, mode |-> 0, hdr_sz |-> 8, sector_sz |-> 2336]
    ELSE IF CharToInt(b[MODE_OFFSET]) = 2
    THEN [ok |-> TRUE, mode |-> b[MODE_OFFSET], hdr_sz |-> 24, sector_sz |-> 2352]
    ELSE [ok |-> TRUE, mode |-> b[MODE_OFFSET], hdr_sz |-> 16, sector_sz |-> 2352]

\* Faulty variant: the default case warns instead of dying: hdr_sz and sector_sz stay
\* unassigned.
LayoutNoDie(b) ==
    IF ~HasSync(b)
    THEN [ok |-> TRUE, mode |-> 0, hdr_sz |-> 8, sector_sz |-> 2336]
    ELSE IF CharToInt(b[MODE_OFFSET]) = 2
    THEN [ok |-> TRUE, mode |-> b[MODE_OFFSET], hdr_sz |-> 24, sector_sz |-> 2352]
    ELSE IF CharToInt(b[MODE_OFFSET]) = 1
    THEN [ok |-> TRUE, mode |-> b[MODE_OFFSET], hdr_sz |-> 16, sector_sz |-> 2352]
    ELSE [ok |-> TRUE, mode |-> b[MODE_OFFSET], hdr_sz |-> hdr_sz, sector_sz |-> sector_sz]

\* bin2iso.c:109-128: mode, hdr_sz, sector_sz from the probe, or die.
Layout(b) ==
    IF ~HasSync(b)
    THEN [ok |-> TRUE, mode |-> 0, hdr_sz |-> 8, sector_sz |-> 2336]
    ELSE IF CharToInt(b[MODE_OFFSET]) = 2
    THEN [ok |-> TRUE, mode |-> b[MODE_OFFSET], hdr_sz |-> 24, sector_sz |-> 2352]
    ELSE IF CharToInt(b[MODE_OFFSET]) = 1
    THEN [ok |-> TRUE, mode |-> b[MODE_OFFSET], hdr_sz |-> 16, sector_sz |-> 2352]
    ELSE [ok |-> FALSE, mode |-> b[MODE_OFFSET], hdr_sz |-> hdr_sz, sector_sz |-> sector_sz]

\* Faulty variant: the tail taken against the raw sector size whatever the layout.
TailSzRaw(sz, ssz) == sz % BUF_SZ

\* bin2iso.c:134
TailSz(sz, ssz) == sz % ssz

\* bin2iso.c:135-138: the stderr line about a trailing partial sector.
TailCheck(ssz, tsz) ==
    IF tsz # 0 THEN <<Ev("warn_size", ssz, tsz)>> ELSE <<>>

\* Faulty variant: the size warning printed from inside the loop as well.
ModeCheckAndTail(b, k) ==
    (IF tail_sz # 0 THEN <<Ev("warn_size", sector_sz, tail_sz)>> ELSE <<>>)
    \o (IF mode # 0 /\ CharToInt(b[MODE_OFFSET]) # CharToInt(mode)
        THEN <<[op |-> "warn_mode", a |-> k,
                b |-> FmtU(CharToInt(b[MODE_OFFSET])),
                c |-> FmtU(CharToInt(mode))]>>
        ELSE <<>>)

\* bin2iso.c:144-147: the stderr line about sector k, just read into b.
ModeCheck(b, k) ==
    IF mode # 0 /\ CharToInt(b[MODE_OFFSET]) # CharToInt(mode)
    THEN <<[op |-> "warn_mode", a |-> k,
            b |-> FmtU(CharToInt(b[MODE_OFFSET])),
            c |-> FmtU(CharToInt(mode))]>>
    ELSE <<>>

\* Faulty variant: the loop runs once too often.
LoopCondInclusive(k, n) == k <= n

\* bin2iso.c:139
NrSectors(sz, ssz) == sz \div ssz

\* bin2iso.c:142: i < nr_sectors
LoopCond(k, n) == k < n

\* --------------------------------------------------------------- Init
Init ==
    /\ charSigned \in BOOLEAN
    /\ srcKind \in Kinds
    /\ srcLen \in Lens
    /\ srcModes \in [1..NModeSlots(srcLen) -> ProbeModes \cup LaterModes]
    /\ srcKind # "sync" => \A k \in DOMAIN srcModes : srcModes[k] = 1
    /\ \A k \in DOMAIN srcModes :
          /\ k = 1 => srcModes[k] \in ProbeModes
          /\ k > 1 => srcModes[k] \in LaterModes
          \* only a supported image's later sectors, and only whole ones, vary
          /\ (k > 1 /\ (srcModes[1] \notin {1, 2} \/ k * 2352 > srcLen))
                => srcModes[k] = 1
    /\ srcPos = 0
    /\ buf = [j \in 0..(BUF_SZ - 1) |-> Uninit]
    /\ mode = Uninit /\ hdr_sz = Uninit /\ sector_sz = Uninit
    /\ img_sz = Uninit /\ tail_sz = Uninit /\ nr_sectors = Uninit
    /\ i = Uninit
    /\ dst = <<>>
    /\ trace = <<>>
    /\ lastRead = [pos |-> Uninit, sz |-> 0]
    /\ ioFault = FALSE
    /\ pc = "start"

\* ------------------------------------------------------------ actions
\* bin2iso.c:107  xfread(buf, 16, src)
ProbeRead ==
    /\ pc = "start"
    /\ \E fault \in BOOLEAN :
         /\ ioFault' = (ioFault \/ fault)
         /\ IF FreadOk(PROBE_SZ, fault)
            THEN /\ buf' = Fread(buf, PROBE_SZ)
                 /\ srcPos' = srcPos + PROBE_SZ
                 /\ lastRead' = [pos |-> srcPos, sz |-> PROBE_SZ]
                 /\ trace' = Append(trace, Ev("fread", PROBE_SZ, srcPos))
                 /\ pc' = "detect"
            ELSE /\ trace' = trace \o <<Ev("fread_failed", PROBE_SZ, srcPos),
                                        Die("die_read", 0)>>
                 /\ pc' = "failed"
                 /\ UNCHANGED <<buf, srcPos, lastRead>>
    /\ UNCHANGED <<charSigned, srcKind, srcLen, srcModes, mode, hdr_sz,
                   sector_sz, img_sz, tail_sz, nr_sectors, i, dst>>

\* bin2iso.c:109-128
DetectLayout ==
    /\ pc = "detect"
    /\ LET l == Layout(buf) IN
         /\ mode' = l.mode
         /\ hdr_sz' = l.hdr_sz
         /\ sector_sz' = l.sector_sz
         /\ IF l.ok
            THEN /\ pc' = "seek"
                 /\ trace' = trace
            ELSE /\ pc' = "failed"
                 /\ trace' = Append(trace, Die("die_mode", FmtU(CharToInt(l.mode))))
    /\ UNCHANGED <<charSigned, srcKind, srcLen, srcModes, srcPos, buf, img_sz,
                   tail_sz, nr_sectors, i, dst, lastRead, ioFault>>

\* bin2iso.c:130  xfseek(src, 0L, SEEK_END)
SeekEnd ==
    /\ pc = "seek"
    /\ \E fault \in BOOLEAN :
         /\ ioFault' = (ioFault \/ fault)
         /\ IF ~fault
            THEN /\ srcPos' = srcLen
                 /\ trace' = Append(trace, Ev("fseek", srcLen, 0))
                 /\ pc' = "size"
            ELSE /\ trace' = trace \o <<Ev("fseek_failed", 0, 0), Die("die_seek", 0)>>
                 /\ pc' = "failed"
                 /\ UNCHANGED srcPos
    /\ UNCHANGED <<charSigned, srcKind, srcLen, srcModes, buf, mode, hdr_sz,
                   sector_sz, img_sz, tail_sz, nr_sectors, i, dst, lastRead>>

\* bin2iso.c:131-142  ftell, the tail warning, nr_sectors, rewind, i = 0
Geometry ==
    /\ pc = "size"
    /\ \E fault \in BOOLEAN :
         /\ ioFault' = (ioFault \/ fault)
         /\ IF ~fault
            THEN /\ img_sz' = srcPos
                 /\ tail_sz' = TailSz(srcPos, sector_sz)
                 /\ nr_sectors' = NrSectors(srcPos, sector_sz)
                 /\ trace' = trace \o <<Ev("ftell", srcPos, 0)>>
                        \o TailCheck(sector_sz, TailSz(srcPos, sector_sz))
                        \o <<Ev("rewind", 0, 0)>>
                 /\ srcPos' = 0
                 /\ i' = 0
                 /\ pc' = "loop"
            ELSE /\ img_sz' = -1
                 /\ trace' = trace \o <<Ev("ftell_failed", 0, 0), Die("die_size", 0)>>
                 /\ pc' = "failed"
                 /\ UNCHANGED <<tail_sz, nr_sectors, srcPos, i>>
    /\ UNCHANGED <<charSigned, srcKind, srcLen, srcModes, buf, mode, hdr_sz,
                   sector_sz, dst, lastRead>>

\* bin2iso.c:142-147  the loop test, xfread(buf, sector_sz, src), the mode check
SectorRead ==
    /\ pc = "loop"
    /\ LoopCond(i, nr_sectors)
    /\ \E fault \in BOOLEAN :
         /\ ioFault' = (ioFault \/ fault)
         /\ IF FreadOk(sector_sz, fault)
            THEN LET nb == Fread(buf, sector_sz) IN
                 /\ buf' = nb
                 /\ srcPos' = srcPos + sector_sz
                 /\ lastRead' = [pos |-> srcPos, sz |-> sector_sz]
                 /\ trace' = trace \o <<Ev("fread", sector_sz, srcPos)>>
                        \o ModeCheck(nb, i)
                 /\ pc' = "write"
            ELSE /\ trace' = trace \o <<Ev("fread_failed", sector_sz, srcPos),
                                        Die("die_read", 0)>>
                 /\ pc' = "failed"
                 /\ UNCHANGED <<buf, srcPos, lastRead>>
    /\ UNCHANGED <<charSigned, srcKind, srcLen, srcModes, mode, hdr_sz,
                   sector_sz, img_sz, tail_sz, nr_sectors, i, dst>>

\* bin2iso.c:148, 142  xfwrite(&buf[hdr_sz], 2048, dst); i++
SectorWrite ==
    /\ pc = "write"
    /\ \E fault \in BOOLEAN :
         /\ ioFault' = (ioFault \/ fault)
         /\ IF ~fault
            THEN /\ dst' = dst \o Payload(buf, hdr_sz)
                 /\ trace' = Append(trace, Ev("fwrite", PAYLOAD_SZ, i))
                 /\ i' = i + 1
                 /\ pc' = "loop"
            ELSE /\ \E n \in ShortWrites :
                       dst' = dst \o SubSeq(Payload(buf, hdr_sz), 1, n)
                 /\ trace' = trace \o <<Ev("fwrite_failed", PAYLOAD_SZ, i),
                                        Die("die_write", 0)>>
                 /\ pc' = "failed"
                 /\ UNCHANGED i
    /\ UNCHANGED <<charSigned, srcKind, srcLen, srcModes, srcPos, buf, mode,
                   hdr_sz, sector_sz, img_sz, tail_sz, nr_sectors, lastRead>>

\* bin2iso.c:142, 151-156  the loop ends; fclose, exit(EXIT_SUCCESS)
Finish ==
    /\ pc = "loop"
    /\ ~LoopCond(i, nr_sectors)
    /\ pc' = "done"
    /\ UNCHANGED <<charSigned, srcKind, srcLen, srcModes, srcPos, buf, mode,
                   hdr_sz, sector_sz, img_sz, tail_sz, nr_sectors, i, dst,
                   trace, lastRead, ioFault>>

Next ==
    \/ ProbeRead
    \/ DetectLayout
    \/ SeekEnd
    \/ Geometry
    \/ SectorRead
    \/ SectorWrite
    \/ Finish

Spec == Init /\ [][Next]_vars

\* The program is one sequential thread: a step that can be taken is taken.
FairSpec == Spec /\ WF_vars(Next)

\* =====================================================================
\* What the file is, read from its bytes alone (not from the program's
\* variables): the layout the first 16 bytes call for.
FileHasSync == \A p \in 0..11 : SrcByte(p) = SYNC_HEADER[p + 1]

FileSupported ==
    srcLen >= PROBE_SZ /\ (FileHasSync => SrcByte(MODE_OFFSET) \in {1, 2})

FileH == IF ~FileHasSync THEN 8 ELSE IF SrcByte(MODE_OFFSET) = 1 THEN 16 ELSE 24

FileS == IF ~FileHasSync THEN 2336 ELSE 2352

\* Output byte k (from 0) of a conversion with header h and sector size s.
Extracted(h, s, k) == SrcByte(h + s * (k \div PAYLOAD_SZ) + (k % PAYLOAD_SZ))

\* dst holds exactly the payloads of the first n sectors.
HoldsSectors(h, s, n) ==
    /\ Len(dst) = n * PAYLOAD_SZ
    /\ \A k \in 0..(n * PAYLOAD_SZ - 1) : dst[k + 1] = Extracted(h, s, k)

Count(op) == Cardinality({k \in DOMAIN trace : trace[k].op = op})

LastOp == IF trace = <<>> THEN "none" ELSE trace[Len(trace)].op

\* ---------------------------------------------------------------- C1
\* C1: a source of N >= 1 whole sectors converts, unless a stdio call fails,
\* to exactly N*2048 bytes, byte k being source byte H + S*(k div 2048) +
\* (k mod 2048), with (H,S) = (16,2352), (24,2352) or (8,2336) as the first
\* 16 bytes call for.
C1_Payload ==
    (FileSupported /\ srcLen >= FileS /\ srcLen % FileS = 0) =>
        /\ pc = "failed" => ioFault
        /\ pc = "done" => HoldsSectors(FileH, FileS, srcLen \div FileS)

C1_Witness ==
    /\ pc = "done" /\ FileSupported /\ FileHasSync /\ FileH = 24
    /\ srcLen = 2 * FileS /\ Len(dst) = 2 * PAYLOAD_SZ

\* ---------------------------------------------------------------- C2
\* C2: a supported source of at least 16 bytes whose length is no multiple of
\* the sector size converts (unless a stdio call fails) with exactly one size
\* warning, naming length mod sector size, and the output is the payloads of
\* the floor(length / sector size) whole sectors and nothing else.
C2_Misaligned ==
    (FileSupported /\ srcLen % FileS # 0) =>
        /\ pc = "failed" => ioFault
        /\ pc = "done" =>
              /\ Count("warn_size") = 1
              /\ \A k \in DOMAIN trace : trace[k].op = "warn_size" =>
                    trace[k].a = FileS /\ trace[k].b = srcLen % FileS
              /\ HoldsSectors(FileH, FileS, srcLen \div FileS)

C2_Witness ==
    /\ pc = "done" /\ FileSupported /\ srcLen % FileS = 2335
    /\ Len(dst) = PAYLOAD_SZ /\ Count("warn_size") = 1

\* ---------------------------------------------------------------- C3
\* The sectors the loop has read so far.
SectorsRead == IF pc \in {"loop", "done"} THEN i
               ELSE IF pc = "write" THEN i + 1
               ELSE IF pc = "failed" /\ i # Uninit
                    THEN (IF LastOp = "die_write" THEN i + 1 ELSE i)
               ELSE 0

MismatchWarnings(k) ==
    {n \in DOMAIN trace : trace[n].op = "warn_mode" /\ trace[n].a = k}

\* C3, all but what the warning prints as the observed mode: on a 2352 image a
\* sector with another mode byte never aborts and never changes the layout,
\* and draws exactly one warning carrying its index and the expected mode.
C3_LayoutKept ==
    (FileSupported /\ FileHasSync) =>
        /\ pc = "failed" => ioFault
        /\ pc \in {"seek", "size", "loop", "write", "done"} =>
              hdr_sz = FileH /\ sector_sz = 2352 /\ mode = SrcByte(MODE_OFFSET)
        /\ pc = "done" => HoldsSectors(FileH, 2352, srcLen \div 2352)
        /\ \A k \in 0..(SectorsRead - 1) :
              IF SrcByte(2352 * k + MODE_OFFSET) # SrcByte(MODE_OFFSET)
              THEN /\ Cardinality(MismatchWarnings(k)) = 1
                   /\ \A n \in MismatchWarnings(k) :
                         trace[n].c = Printed(SrcByte(MODE_OFFSET))
              ELSE MismatchWarnings(k) = {}
        /\ \A n \in DOMAIN trace : trace[n].op = "warn_mode" =>
              trace[n].a \in 0..(SectorsRead - 1)

\* C3: the above, and each warning names the observed mode, the sector's byte
\* at offset 15.
C3_MismatchWarned ==
    /\ C3_LayoutKept
    /\ (FileSupported /\ FileHasSync) =>
          \A n \in DOMAIN trace : trace[n].op = "warn_mode" =>
              trace[n].b = Printed(SrcByte(2352 * trace[n].a + MODE_OFFSET))

\* ---------------------------------------------------------------- C4
\* C4: a source with the sync header and a mode byte other than 1 and 2 never
\* gets past detection: nothing is written, no warning is printed, and the
\* run fails, with the unsupported-mode error unless the probe read failed.
C4_Unsupported ==
    (srcLen >= PROBE_SZ /\ FileHasSync /\ SrcByte(MODE_OFFSET) \notin {1, 2}) =>
        /\ pc \in {"start", "detect", "failed"}
        /\ dst = <<>>
        /\ Count("warn_size") = 0 /\ Count("warn_mode") = 0
        /\ Count("fwrite") = 0 /\ Count("fwrite_failed") = 0
        /\ pc = "failed" => (IF ioFault THEN LastOp = "die_read"
                             ELSE LastOp = "die_mode")

C4_Witness ==
    /\ pc = "failed" /\ ~ioFault /\ LastOp = "die_mode"
    /\ srcLen > 2352 /\ FileHasSync /\ SrcByte(MODE_OFFSET) = 7

\* ---------------------------------------------------------------- C5
\* C5 as stated: a run that ends in a fatal error has put no payload byte
\* into the destination.
C5_NoPartialOutput == pc = "failed" => dst = <<>>

\* C5 amended: a fatal error before the loop leaves the destination empty; a
\* fatal error at sector index i leaves the payloads of sectors 0..i-1 in it,
\* followed, when it is the write that failed, by less than one payload.
C5_PartialOutput ==
    pc = "failed" =>
        IF i = Uninit THEN dst = <<>>
        ELSE /\ Len(dst) >= i * PAYLOAD_SZ
             /\ Len(dst) < (i + 1) * PAYLOAD_SZ
             /\ LastOp # "die_write" => Len(dst) = i * PAYLOAD_SZ
             /\ \A k \in 0..(Len(dst) - 1) : dst[k + 1] = Extracted(FileH, FileS, k)

C5_Witness ==
    /\ pc = "failed" /\ LastOp = "die_read" /\ i = 1 /\ Len(dst) = PAYLOAD_SZ

\* ---------------------------------------------------------------- C6
IoOps == SelectSeq(trace, LAMBDA e :
             e.op \in {"fread", "fseek", "ftell", "rewind", "fwrite"})

FailedOps == {"fread_failed", "fseek_failed", "ftell_failed", "fwrite_failed"}

DieOps == {"die_read", "die_seek", "die_size", "die_write", "die_mode"}

\* The k-th successful stdio call of a run: the probe, the seek, the ftell,
\* the rewind, then a read of one sector and a write of its payload for
\* sector 0, 1, 2, ...
IdealOp(k) ==
    IF k = 1 THEN Ev("fread", PROBE_SZ, 0)
    ELSE IF k = 2 THEN Ev("fseek", srcLen, 0)
    ELSE IF k = 3 THEN Ev("ftell", srcLen, 0)
    ELSE IF k = 4 THEN Ev("rewind", 0, 0)
    ELSE IF k % 2 = 1 THEN Ev("fread", FileS, FileS * ((k - 5) \div 2))
    ELSE Ev("fwrite", PAYLOAD_SZ, (k - 6) \div 2)

C6_Shape ==
    /\ pc \in {"start", "detect", "seek", "size", "loop", "write", "done", "failed"}
    /\ \A k \in DOMAIN IoOps : IoOps[k] = IdealOp(k)
    /\ pc = "start" <=> trace = <<>>
    /\ pc \in {"detect", "seek"} => Len(IoOps) = 1
    /\ pc = "size" => Len(IoOps) = 2
    /\ pc = "loop" => Len(IoOps) = 4 + 2 * i
    /\ pc = "write" => Len(IoOps) = 5 + 2 * i
    \* never more than sector_count iterations, and exactly that many at the end
    /\ Count("fread") + Count("fread_failed") <= 1 + srcLen \div FileS
    /\ pc = "done" => Len(IoOps) = 4 + 2 * (srcLen \div FileS)
    \* a failed call, or the unsupported mode, is the end of the run
    /\ pc = "failed" <=> \E k \in DOMAIN trace : trace[k].op \in DieOps
    /\ \A k \in DOMAIN trace :
          /\ trace[k].op \in DieOps => k = Len(trace)
          /\ trace[k].op \in FailedOps =>
                k = Len(trace) - 1 /\ trace[k + 1].op \in DieOps

C6_Step ==
    /\ pc \notin {"done", "failed"}
    /\ <<pc, pc'>> \in {<<"start", "detect">>, <<"detect", "seek">>,
                        <<"seek", "size">>, <<"size", "loop">>,
                        <<"loop", "write">>, <<"write", "loop">>,
                        <<"loop", "done">>,
                        <<"start", "failed">>, <<"detect", "failed">>,
                        <<"seek", "failed">>, <<"size", "failed">>,
                        <<"loop", "failed">>, <<"write", "failed">>}

\* C6: a run goes start, probe read, layout detected, sector loop, done; the
\* loop reads sector 0, 1, ... in order, each read of sector_size bytes
\* followed by one write of 2048 bytes, sector_count times in all; a failed
\* call ends the run at once, with no further stdio call; and every run ends,
\* done or failed.
C6_StateMachine ==
    /\ []C6_Shape
    /\ [][C6_Step]_vars
    /\ <>(pc \in {"done", "failed"})

C6_Witness ==
    /\ pc = "done" /\ Count("fwrite") = 2 /\ Count("fread") = 3
    /\ nr_sectors = 2 /\ ~ioFault

\* ---------------------------------------------------------------- C7
\* C7: the size warning is printed at most once, and when it is printed only
\* the probe read, the seek and the ftell precede it: no sector read, no
\* write, and the rewind that starts the loop follows it.
C7_SizeWarningOnce ==
    /\ Count("warn_size") <= 1
    /\ \A k \in DOMAIN trace : trace[k].op = "warn_size" =>
          /\ k = 4
          /\ trace[1].op = "fread" /\ trace[1].a = PROBE_SZ
          /\ trace[2].op = "fseek" /\ trace[3].op = "ftell"
          /\ Len(trace) > k => trace[k + 1].op = "rewind"

C7_Witness ==
    /\ pc = "done" /\ Count("warn_size") = 1 /\ Count("fwrite") = 2

\* ---------------------------------------------------------------- C8
\* C8: a source shorter than 16 bytes fails at the probe read: no layout is
\* chosen, nothing is printed but the read error, nothing is written; a source
\* of 16 bytes or more fails at the probe only when the read itself fails.
C8_ShortProbe ==
    /\ srcLen < PROBE_SZ =>
          /\ pc \in {"start", "failed"}
          /\ mode = Uninit /\ hdr_sz = Uninit /\ sector_sz = Uninit
          /\ dst = <<>>
          /\ pc = "failed" =>
                trace = <<Ev("fread_failed", PROBE_SZ, 0), Die("die_read", 0)>>
    /\ (srcLen >= PROBE_SZ /\ Len(trace) >= 1 /\ trace[1].op = "fread_failed")
          => ioFault

C8_Witness == pc = "failed" /\ srcLen = 15 /\ ~ioFault

\* ---------------------------------------------------------------- C9
\* C9: the mode the unsupported-mode error prints, and the observed mode a
\* mismatch warning prints, is the byte at offset 15 of the sector as a number
\* in 0..255.
C9_ModePrinted ==
    \A n \in DOMAIN trace :
        /\ trace[n].op = "die_mode" => trace[n].a = Printed(SrcByte(MODE_OFFSET))
        /\ trace[n].op = "warn_mode" =>
              trace[n].b = Printed(SrcByte(FileS * trace[n].a + MODE_OFFSET))

\* --------------------------------------------------------------- C10
\* C10: once the layout is detected hdr_sz and sector_sz are assigned, with
\* hdr_sz + 2048 <= sector_sz <= 2352; and the 2048 bytes about to be written
\* were all read by this iteration's read of sector i.
C10_WriteInsideRead ==
    /\ pc \in {"seek", "size", "loop", "write", "done"} =>
          /\ hdr_sz # Uninit /\ sector_sz # Uninit
          /\ hdr_sz >= 0
          /\ hdr_sz + PAYLOAD_SZ <= sector_sz
          /\ sector_sz <= BUF_SZ
    /\ pc = "write" =>
          /\ lastRead = [pos |-> i * sector_sz, sz |-> sector_sz]
          /\ hdr_sz + PAYLOAD_SZ <= lastRead.sz
          /\ \A j \in hdr_sz..(hdr_sz + PAYLOAD_SZ - 1) :
                buf[j] = SrcByte(lastRead.pos + j)

C10_Witness == pc = "write" /\ i = 1 /\ hdr_sz = 24

====
